---- MODULE Spec2Model ----
(***************************************************************************)
(* A model of the try-error library (src/src/try.ts): the result-tuple     *)
(* convention [value, null] | [null, Error], the error normaliser          *)
(* ensureError and the combinators tryCatch, tryFn, tryPromise, tryMap and *)
(* tryPipe.                                                                *)
(*                                                                         *)
(* JavaScript values are records {kind, n, s, success, message}:           *)
(*   kind     the runtime type: null, undefined, number, string, boolean,  *)
(*            object (a plain record), circular (a self-referential        *)
(*            object) or error (an instance of Error);                     *)
(*   n        a number's value, a boolean's value (0/1), an Error's        *)
(*            identity (its address on the heap);                          *)
(*   s        a string's text, an Error's message;                         *)
(*   success, message   an object's fields of those names ("absent" when   *)
(*            the object has no such field).                               *)
(* A user callable is the environment: when the library invokes it, it     *)
(* returns a value, throws a cause, or returns a promise that later        *)
(* resolves, rejects, or never settles.                                    *)
(***************************************************************************)
EXTENDS Integers, Sequences, FiniteSets, TLC

\* Longest input array handed to tryMap.
MaxItems == 2
\* Most steps composed into one tryPipe pipeline.
MaxSteps == 3
\* Longest argument list handed to a wrapper or a pipeline.
MaxArgs == 2

\* The most steps of a pipeline invoked twice at once.
MaxPairSteps == 2

VARIABLES
    op,        \* the library operation under way ("idle" before the call)
    input,     \* the caller's argument list (tryFn, tryPipe) or input array (tryMap)
    nfns,      \* the number of steps composed by tryPipe (fns.length)
    fnCalls,   \* every invocation of a user callable so far: [fn, args, outcome]
    owner,     \* owner[k]: the activation (an index of frames) that made user call k
    settled,   \* settled[k]: the promise returned by user call k has settled
    frames,    \* the async function activations: [pc, call, i, state, tuple]
    returned,  \* what the library call has given its caller so far: [state, tuples]
    errs,      \* the Errors returned by the caller's own calls of ensureError
    seen,      \* what the inspection helpers said of one tuple (empty before)
    heap       \* the number of Error objects allocated so far (the next identity)

vars == <<op, input, nfns, fnCalls, owner, settled, frames, returned, errs, seen, heap>>

-----------------------------------------------------------------------------
(* JavaScript values *)

Val(kind, n, s) == [kind |-> kind, n |-> n, s |-> s, success |-> "absent", message |-> "absent"]

Null == Val("null", 0, "")

Undefined == Val("undefined", 0, "")

Num(n) == Val("number", n, "")

Str(s) == Val("string", 0, s)

Bool(b) == Val("boolean", IF b THEN 1 ELSE 0, "")

Obj(success, message) == [kind |-> "object", n |-> 0, s |-> "", success |-> success, message |-> message]

Circular == Val("circular", 0, "")

\* new Error(message), allocated at heap address id
Err(id, message) == Val("error", id, message)

\* The Error objects that exist before the library is called (thrown as they are).
OldErrors == {Err(0, "boom")}

\* What a user callable may return or resolve to.
Results == {Null, Undefined, Num(0), Num(2), Str(""), Str("11"), Bool(FALSE),
            Obj("absent", "absent"), Obj("false", "m")}

\* What a user callable may throw or reject with.
Causes == OldErrors \cup {Str("too big"), Str(""), Null, Undefined, Num(0), Bool(FALSE),
                          Obj("absent", "absent"), Obj("false", "m"), Circular}

Values == Results \cup Causes

-----------------------------------------------------------------------------
(* ensureError, src/src/try.ts:3-10 *)

\* value instanceof Error
InstanceOfError(value) == value.kind = "error"

\* The decimal text of a small number.
NumberText(n) == CASE n = 0 -> "0" [] n = 1 -> "1" [] n = 2 -> "2" [] OTHER -> "3"

\* The JSON text of an object's fields, in insertion order (success, message).
ObjectText(value) ==
    LET succ == IF value.success = "absent" THEN ""
                ELSE "\"success\":" \o value.success
        msg  == IF value.message = "absent" THEN ""
                ELSE "\"message\":\"" \o value.message \o "\""
        sep  == IF value.success # "absent" /\ value.message # "absent" THEN "," ELSE ""
    IN "{" \o succ \o sep \o msg \o "}"

\* JSON.stringify(value): it throws on a circular structure, gives undefined for
\* undefined, and a text otherwise. An Error has no enumerable own field.
JSONStringify(value) ==
    CASE value.kind = "circular"  -> [threw |-> TRUE,  defined |-> FALSE, text |-> ""]
      [] value.kind = "undefined" -> [threw |-> FALSE, defined |-> FALSE, text |-> ""]
      [] value.kind = "null"      -> [threw |-> FALSE, defined |-> TRUE,  text |-> "null"]
      [] value.kind = "number"    -> [threw |-> FALSE, defined |-> TRUE,  text |-> NumberText(value.n)]
      [] value.kind = "boolean"   -> [threw |-> FALSE, defined |-> TRUE,
                                      text |-> IF value.n = 1 THEN "true" ELSE "false"]
      [] value.kind = "string"    -> [threw |-> FALSE, defined |-> TRUE,
                                      text |-> "\"" \o value.s \o "\""]
      [] value.kind = "object"    -> [threw |-> FALSE, defined |-> TRUE,  text |-> ObjectText(value)]
      [] OTHER                    -> [threw |-> FALSE, defined |-> TRUE,  text |-> "{}"]

\* The message of new Error(m): an undefined argument leaves the message empty.
ErrorMessage(value) ==
    IF value.kind = "string" THEN value.s
    ELSE LET j == JSONStringify(value)
         IN  IF j.threw THEN "Unknown error"
             ELSE IF j.defined THEN j.text ELSE ""

\* ensureError without its instanceof test: every cause is wrapped in a new Error.
ensureErrorAlwaysNew(value, h) == Err(h, ErrorMessage(value))

\* ensureError(value) with the heap holding h Errors: the Error it returns. A new
\* Error takes the next address, h.
ensureError(value, h) ==
    IF InstanceOfError(value) THEN value
    ELSE Err(h, ErrorMessage(value))

\* The heap after ensureError(value): one more Error unless value passed through.
HeapAfter(value, h) == IF InstanceOfError(value) THEN h ELSE h + 1

-----------------------------------------------------------------------------
(* User callables: the environment *)

\* What one invocation of a user callable does: it returns v, throws v, or returns
\* a promise that resolves to v, rejects with v, or never settles.
Outcome(mode, v) == [mode |-> mode, v |-> v]

SyncOutcomes == {Outcome("return", v) : v \in Results} \cup {Outcome("throw", v) : v \in Causes}

PromiseOutcomes ==
    {Outcome("resolve", v) : v \in Results} \cup {Outcome("reject", v) : v \in Causes}
    \cup {Outcome("never", Undefined)}

Outcomes == SyncOutcomes \cup PromiseOutcomes

\* The outcomes of the per-item callable of tryMap and of the steps of tryPipe: one
\* of each kind the code tells apart (null and non-null results; a thrown Error, a
\* thrown text, a thrown value that cannot be serialised).
StepResults == {Null, Num(0), Str("11")}

StepCauses == OldErrors \cup {Str("too big"), Circular}

StepOutcomes ==
    {Outcome(m, v) : m \in {"return", "resolve"}, v \in StepResults}
    \cup {Outcome(m, v) : m \in {"throw", "reject"}, v \in StepCauses}
    \cup {Outcome("never", Undefined)}

\* The outcomes of the callables in two overlapping invocations: one of each mode
\* that settles.
PairOutcomes ==
    {Outcome("return", Num(0)), Outcome("resolve", Str("11")),
     Outcome("throw", Str("too big")), Outcome("reject", Err(0, "boom"))}

\* The arguments and items callers pass.
Args == {Num(1), Str("a")}

ArgLists == UNION {[1..n -> Args] : n \in 0..MaxArgs}

\* The argument lists of two overlapping invocations.
PairArgLists == {<<a>> : a \in Args}

InputArrays == UNION {[1..n -> Args] : n \in 0..MaxItems}

\* The record of one invocation of a user callable: which one (for tryPipe the
\* step's index in fns, otherwise 0), its arguments, and what it did.
Invocation(fn, args, o) == [fn |-> fn, args |-> args, outcome |-> o]

\* Whether the value an await waits for is there at once: a callable that returned a
\* plain value (await wraps it in a resolved promise) or threw (nothing to wait for).
Immediate(o) == o.mode \in {"return", "throw"}

-----------------------------------------------------------------------------
(* Result tuples and the promise of an async function *)

NoTuple == <<>>

\* [value, null]                    (try.ts:17, 30, 95)
SuccessTuple(value) == <<value, Null>>

\* A failure tuple that keeps the cause in the value slot.
CatchTupleKeepsCause(err, h) == <<err, ensureError(err, h)>>

\* [null, ensureError(err)]         (try.ts:19, 32, 97-98)
CatchTuple(err, h) == <<Null, ensureError(err, h)>>

\* The promise of an async function activation: pending, resolved with the tuple the
\* function returned, or rejected (were it to let an exception escape).
Pending == [state |-> "pending", tuple |-> NoTuple]

Resolved(tuple) == [state |-> "resolved", tuple |-> tuple]

Rejected == [state |-> "rejected", tuple |-> NoTuple]

\* One async activation: the wrapper returned by tryFn (try.ts:15-21) or the
\* function returned by tryPipe (try.ts:87-100).
\*   pc      "await" while suspended at an await, "done" once returned
\*   call    the user call whose result it awaits (an index of fnCalls)
\*   i       tryPipe: the loop variable, the index in fns of the step in flight
\*   state, tuple   its promise
Frame(pc, call, i, p) == [pc |-> pc, call |-> call, i |-> i, state |-> p.state, tuple |-> p.tuple]

-----------------------------------------------------------------------------
(* The initial state: nothing called yet; the heap holds the old Errors. *)

Init ==
    /\ op = "idle"
    /\ input = <<>>
    /\ nfns = 0
    /\ fnCalls = <<>>
    /\ owner = <<>>
    /\ settled = <<>>
    /\ frames = <<>>
    /\ returned = [state |-> "none", tuples |-> <<>>]
    /\ errs = <<>>
    /\ seen = <<>>
    /\ heap = Cardinality(OldErrors)

\* What the caller holds of a single async activation: its promise.
PromiseOf(frame) ==
    [state |-> frame.state, tuples |-> IF frame.state = "pending" THEN <<>> ELSE <<frame.tuple>>]

-----------------------------------------------------------------------------
(* ensureError called by the caller itself, once and then on its own result *)

EnsureErrorCall ==
    /\ op = "idle"
    /\ \E value \in Values :
          /\ input' = <<value>>
          /\ errs' = <<ensureError(value, heap)>>
          /\ heap' = HeapAfter(value, heap)
    /\ op' = "ensureError"
    /\ UNCHANGED <<seen, nfns, fnCalls, owner, settled, frames, returned>>

EnsureErrorAgain ==
    /\ op = "ensureError"
    /\ Len(errs) = 1
    /\ errs' = Append(errs, ensureError(errs[1], heap))
    /\ heap' = HeapAfter(errs[1], heap)
    /\ UNCHANGED <<seen, op, input, nfns, fnCalls, owner, settled, frames, returned>>

-----------------------------------------------------------------------------
(* tryCatch, src/src/try.ts:28-34 *)

\* tryCatch without its catch block: the exception escapes to the caller.
tryCatchNoCatch(o, h) ==
    IF o.mode = "throw" THEN [state |-> "threw", tuples |-> <<>>]
    ELSE [state |-> "returned", tuples |-> <<SuccessTuple(o.v)>>]

\* tryCatch(fn) where the call fn() does o: the tuple returned.
\* It returns, or would throw were an exception to escape it.
tryCatch(o, h) ==
    IF o.mode = "throw" THEN [state |-> "returned", tuples |-> <<CatchTuple(o.v, h)>>]
    ELSE [state |-> "returned", tuples |-> <<SuccessTuple(o.v)>>]

TryCatchCall ==
    /\ op = "idle"
    /\ \E o \in SyncOutcomes :
          /\ fnCalls' = Append(fnCalls, Invocation(0, <<>>, o))
          /\ owner' = Append(owner, 1)
          /\ settled' = Append(settled, TRUE)
          /\ returned' = tryCatch(o, heap)
          /\ heap' = IF o.mode = "throw" THEN HeapAfter(o.v, heap) ELSE heap
    /\ op' = "tryCatch"
    /\ UNCHANGED <<seen, input, nfns, frames, errs>>

-----------------------------------------------------------------------------
(* tryFn, src/src/try.ts:12-22 *)

\* fn(args[0]): only the first argument is forwarded.
ForwardFirstArg(args) == IF Len(args) <= 1 THEN args ELSE <<args[1]>>

\* The arguments the wrapper hands to fn: fn(...args).
ForwardArgs(args) == args

\* The wrapper up to its first suspension: it calls fn(...args), which does o. A
\* synchronous throw is caught at once; otherwise the wrapper awaits what fn
\* returned, user call number k.
tryFnEnter(o, k, h) ==
    IF o.mode = "throw" THEN Frame("done", k, 0, Resolved(CatchTuple(o.v, h)))
    ELSE Frame("await", k, 0, Pending)

\* The wrapper without its catch block: a rejection escapes and rejects its promise.
tryFnResumeNoCatch(frame, o, h) ==
    IF o.mode = "reject" THEN Frame("done", frame.call, frame.i, Rejected)
    ELSE Frame("done", frame.call, frame.i, Resolved(SuccessTuple(o.v)))

\* The wrapper whose catch block never returns: after a rejection it stays suspended.
tryFnResumeHangs(frame, o, h) ==
    IF o.mode = "reject" THEN frame
    ELSE Frame("done", frame.call, frame.i, Resolved(SuccessTuple(o.v)))

\* The wrapper resumed from its await with the awaited value settled.
tryFnResume(frame, o, h) ==
    IF o.mode = "reject" THEN Frame("done", frame.call, frame.i, Resolved(CatchTuple(o.v, h)))
    ELSE Frame("done", frame.call, frame.i, Resolved(SuccessTuple(o.v)))

TryFnCall ==
    /\ op = "idle"
    /\ \E args \in ArgLists, o \in Outcomes :
          LET frame == tryFnEnter(o, Len(fnCalls) + 1, heap) IN
          /\ input' = args
          /\ fnCalls' = Append(fnCalls, Invocation(0, ForwardArgs(args), o))
          /\ owner' = Append(owner, 1)
          /\ settled' = Append(settled, Immediate(o))
          /\ frames' = <<frame>>
          /\ returned' = PromiseOf(frame)
          /\ heap' = IF o.mode = "throw" THEN HeapAfter(o.v, heap) ELSE heap
    /\ op' = "tryFn"
    /\ UNCHANGED <<seen, nfns, errs>>

\* tryPromise(promise) = tryFn(() => promise)()   (try.ts:24-26): the arrow function
\* takes no argument and returns the caller's promise.
TryPromiseCall ==
    /\ op = "idle"
    /\ \E o \in PromiseOutcomes :
          LET frame == tryFnEnter(o, Len(fnCalls) + 1, heap) IN
          /\ fnCalls' = Append(fnCalls, Invocation(0, <<>>, o))
          /\ owner' = Append(owner, 1)
          /\ settled' = Append(settled, FALSE)
          /\ frames' = <<frame>>
          /\ returned' = PromiseOf(frame)
    /\ op' = "tryPromise"
    /\ UNCHANGED <<seen, input, nfns, errs, heap>>

\* A `result` held in one variable shared by all activations: what the latest user
\* call of any of them gave.
ResultShared(frame, calls) == calls[Len(calls)].outcome

\* What the activation's await gives it: the outcome of the user call it made itself
\* (`await fn(...args)` in the wrapper, the local `let result` of the pipeline).
ResultOf(frame, calls) == calls[frame.call].outcome

\* An await that does not wait: the activation goes on with whatever is there.
AwaitedAtOnce(k, done) == TRUE

\* await: the activation suspended on user call k is resumed only once what the call
\* returned has settled (done is the settled flag of every user call).
Awaited(k, done) == done[k]

\* The environment: the promise a user callable returned settles.
Settle ==
    /\ \E k \in 1..Len(fnCalls) :
          /\ ~settled[k]
          /\ fnCalls[k].outcome.mode \in {"resolve", "reject"}
          /\ settled' = [settled EXCEPT ![k] = TRUE]
    /\ UNCHANGED <<seen, op, input, nfns, fnCalls, owner, frames, returned, errs, heap>>

\* A wrapper of tryFn continues after its await (tryFn, tryPromise, tryMap's safeFn).
TryFnResume ==
    /\ op \in {"tryFn", "tryPromise", "tryMap", "tryFnPair"}
    /\ \E f \in 1..Len(frames) :
          LET o == ResultOf(frames[f], fnCalls)
              frame == tryFnResume(frames[f], o, heap)
          IN
          /\ frames[f].pc = "await"
          /\ Awaited(frames[f].call, settled)
          /\ frames' = [frames EXCEPT ![f] = frame]
          /\ heap' = IF o.mode = "reject" THEN HeapAfter(o.v, heap) ELSE heap
          /\ returned' = IF op \in {"tryMap", "tryFnPair"} THEN returned ELSE PromiseOf(frame)
    /\ UNCHANGED <<seen, op, input, nfns, fnCalls, owner, settled, errs>>

-----------------------------------------------------------------------------
(* tryMap, src/src/try.ts:73-79 *)

\* The arguments of the i-th call (i from 1 here, from 0 in the code):
\* safeFn(item, i), forwarded by the wrapper to fn.
MapArgs(inputs, i) == ForwardArgs(<<inputs[i], Num(i - 1)>>)

\* inputs.map((item, i) => safeFn(item, i)): the wrappers are entered one after the
\* other, in input order, before anything else runs; outs[i] is what fn does in the
\* i-th call. The state threaded through is [fnCalls, settled, frames, heap].
RECURSIVE MapEnter(_, _, _, _)
MapEnter(inputs, outs, i, st) ==
    IF i > Len(inputs) THEN st
    ELSE LET o == outs[i]
             k == Len(st.fnCalls) + 1
         IN  MapEnter(inputs, outs, i + 1,
                 [fnCalls |-> Append(st.fnCalls, Invocation(0, MapArgs(inputs, i), o)),
                  settled |-> Append(st.settled, Immediate(o)),
                  frames  |-> Append(st.frames, tryFnEnter(o, k, st.heap)),
                  heap    |-> IF o.mode = "throw" THEN HeapAfter(o.v, st.heap) ELSE st.heap])

\* Promise.any in place of Promise.all: resolved as soon as one wrapper is, with the
\* tuples there are.
PromiseAnyResolved(fs) ==
    LET ready == SelectSeq(fs, LAMBDA fr : fr.state = "resolved")
    IN  IF ready # <<>>
        THEN [state |-> "resolved", tuples |-> [f \in 1..Len(ready) |-> ready[f].tuple]]
        ELSE [state |-> "pending", tuples |-> <<>>]

\* Promise.all over the wrappers' promises: rejected as soon as one is rejected,
\* resolved with all the values, in the order of the promises, once all are resolved.
PromiseAll(fs) ==
    IF \E f \in 1..Len(fs) : fs[f].state = "rejected"
    THEN [state |-> "rejected", tuples |-> <<>>]
    ELSE IF \A f \in 1..Len(fs) : fs[f].state = "resolved"
         THEN [state |-> "resolved", tuples |-> [f \in 1..Len(fs) |-> fs[f].tuple]]
         ELSE [state |-> "pending", tuples |-> <<>>]

TryMapCall ==
    /\ op = "idle"
    /\ \E inputs \in InputArrays :
       \E outs \in [1..Len(inputs) -> StepOutcomes] :
          LET st == MapEnter(inputs, outs, 1,
                        [fnCalls |-> fnCalls, settled |-> settled, frames |-> <<>>, heap |-> heap])
          IN
          /\ input' = inputs
          /\ fnCalls' = st.fnCalls
          /\ owner' = [i \in 1..Len(inputs) |-> i]
          /\ settled' = st.settled
          /\ frames' = st.frames
          /\ heap' = st.heap
    /\ returned' = [state |-> "pending", tuples |-> <<>>]
    /\ op' = "tryMap"
    /\ UNCHANGED <<seen, nfns, errs>>

\* The promise of Promise.all settles, and with it the promise tryMap returned.
PromiseAllSettle ==
    /\ op = "tryMap"
    /\ returned.state = "pending"
    /\ PromiseAll(frames).state # "pending"
    /\ returned' = PromiseAll(frames)
    /\ UNCHANGED <<seen, op, input, nfns, fnCalls, owner, settled, frames, errs, heap>>

-----------------------------------------------------------------------------
(* tryPipe, src/src/try.ts:81-101 *)

\* The argument list of a later step: fns[i](result).
StepArgs(result) == <<result>>

\* A pipeline whose try block sits inside the loop body and swallows a synchronous
\* throw: the thrown cause is carried on as the step's result.
tryPipeInvokeSwallows(o, k, i, h) == Frame("await", k, i, Pending)

\* The pipeline calls step i, which does o, as user call k: a synchronous throw
\* lands in the catch block, anything else is awaited.
tryPipeInvoke(o, k, i, h) ==
    IF o.mode = "throw" THEN Frame("done", k, i, Resolved(CatchTuple(o.v, h)))
    ELSE Frame("await", k, i, Pending)

\* The last step resolved to result: return [result as TResult, null] (try.ts:95).
tryPipeReturn(frame, result) == Frame("done", frame.call, frame.i, Resolved(SuccessTuple(result)))

\* An awaited step rejected with err: the catch block (try.ts:96-99).
tryPipeCatch(frame, err, h) == Frame("done", frame.call, frame.i, Resolved(CatchTuple(err, h)))

\* The loop bound off by one: the last step is never run.
HasNextStepOffByOne(i, n) == i + 2 < n

\* for (let i = 1; i < fns.length; i++): whether the loop runs step i + 1 after
\* step i (indices from 0, as in the code).
HasNextStep(i, n) == i + 1 < n

\* What a step does, by scenario: in two overlapping invocations, one outcome of
\* each mode.
PipeOutcomes(scenario) == IF scenario = "tryPipe" THEN StepOutcomes ELSE PairOutcomes

\* result = await fns[0](...args)   (try.ts:91)
TryPipeCall ==
    /\ op = "idle"
    /\ \E n \in 1..MaxSteps, args \in ArgLists, o \in StepOutcomes :
          LET frame == tryPipeInvoke(o, Len(fnCalls) + 1, 0, heap) IN
          /\ nfns' = n
          /\ input' = args
          /\ fnCalls' = Append(fnCalls, Invocation(0, ForwardArgs(args), o))
          /\ owner' = Append(owner, 1)
          /\ settled' = Append(settled, Immediate(o))
          /\ frames' = <<frame>>
          /\ returned' = PromiseOf(frame)
          /\ heap' = IF o.mode = "throw" THEN HeapAfter(o.v, heap) ELSE heap
    /\ op' = "tryPipe"
    /\ UNCHANGED <<seen, errs>>

\* The awaited step resolved and the loop goes on: result = await fns[i](result)
\* (try.ts:92-94).
TryPipeNext ==
    /\ op \in {"tryPipe", "tryPipePair"}
    /\ \E f \in 1..Len(frames), o \in PipeOutcomes(op) :
          LET done == ResultOf(frames[f], fnCalls)
              result == done.v
              i == frames[f].i + 1
              frame == tryPipeInvoke(o, Len(fnCalls) + 1, i, heap)
          IN
          /\ frames[f].pc = "await"
          /\ Awaited(frames[f].call, settled)
          /\ done.mode # "reject"
          /\ HasNextStep(frames[f].i, nfns)
          /\ fnCalls' = Append(fnCalls, Invocation(i, StepArgs(result), o))
          /\ owner' = Append(owner, f)
          /\ settled' = Append(settled, Immediate(o))
          /\ frames' = [frames EXCEPT ![f] = frame]
          /\ returned' = IF op = "tryPipe" THEN PromiseOf(frame) ELSE returned
          /\ heap' = IF o.mode = "throw" THEN HeapAfter(o.v, heap) ELSE heap
    /\ UNCHANGED <<seen, op, input, nfns, errs>>

\* The awaited step resolved and it was the last: return [result, null] (try.ts:95).
TryPipeReturn ==
    /\ op \in {"tryPipe", "tryPipePair"}
    /\ \E f \in 1..Len(frames) :
          LET done == ResultOf(frames[f], fnCalls)
              frame == tryPipeReturn(frames[f], done.v)
          IN
          /\ frames[f].pc = "await"
          /\ Awaited(frames[f].call, settled)
          /\ done.mode # "reject"
          /\ ~HasNextStep(frames[f].i, nfns)
          /\ frames' = [frames EXCEPT ![f] = frame]
          /\ returned' = IF op = "tryPipe" THEN PromiseOf(frame) ELSE returned
    /\ UNCHANGED <<seen, op, input, nfns, fnCalls, owner, settled, errs, heap>>

\* The awaited step rejected: catch (err) { error = ensureError(err); return
\* [null, error] }   (try.ts:96-99).
TryPipeCatch ==
    /\ op \in {"tryPipe", "tryPipePair"}
    /\ \E f \in 1..Len(frames) :
          LET done == ResultOf(frames[f], fnCalls)
              frame == tryPipeCatch(frames[f], done.v, heap)
          IN
          /\ frames[f].pc = "await"
          /\ Awaited(frames[f].call, settled)
          /\ done.mode = "reject"
          /\ frames' = [frames EXCEPT ![f] = frame]
          /\ returned' = IF op = "tryPipe" THEN PromiseOf(frame) ELSE returned
          /\ heap' = HeapAfter(done.v, heap)
    /\ UNCHANGED <<seen, op, input, nfns, fnCalls, owner, settled, errs>>

-----------------------------------------------------------------------------
(* Two overlapping invocations of one tryFn wrapper, or of one composed pipeline:
   const p = wrapped(a); const q = wrapped(b). input holds the two argument lists. *)

\* The first invocation of the wrapper.
TryFnPairCall ==
    /\ op = "idle"
    /\ \E args \in PairArgLists, o \in PairOutcomes :
          LET frame == tryFnEnter(o, Len(fnCalls) + 1, heap) IN
          /\ input' = <<args>>
          /\ fnCalls' = Append(fnCalls, Invocation(0, ForwardArgs(args), o))
          /\ owner' = Append(owner, 1)
          /\ settled' = Append(settled, Immediate(o))
          /\ frames' = <<frame>>
          /\ heap' = IF o.mode = "throw" THEN HeapAfter(o.v, heap) ELSE heap
    /\ op' = "tryFnPair"
    /\ UNCHANGED <<seen, nfns, returned, errs>>

\* The same wrapper invoked again, with other arguments, while its first invocation
\* is suspended.
TryFnSecondCall ==
    /\ op = "tryFnPair"
    /\ Len(frames) = 1
    /\ frames[1].pc = "await"
    /\ \E args \in PairArgLists \ {input[1]}, o \in PairOutcomes :
          LET frame == tryFnEnter(o, Len(fnCalls) + 1, heap) IN
          /\ input' = Append(input, args)
          /\ fnCalls' = Append(fnCalls, Invocation(0, ForwardArgs(args), o))
          /\ owner' = Append(owner, 2)
          /\ settled' = Append(settled, Immediate(o))
          /\ frames' = Append(frames, frame)
          /\ heap' = IF o.mode = "throw" THEN HeapAfter(o.v, heap) ELSE heap
    /\ UNCHANGED <<seen, op, nfns, returned, errs>>

\* The first invocation of the composed pipeline.
TryPipePairCall ==
    /\ op = "idle"
    /\ \E n \in 1..MaxPairSteps, args \in PairArgLists, o \in PairOutcomes :
          LET frame == tryPipeInvoke(o, Len(fnCalls) + 1, 0, heap) IN
          /\ nfns' = n
          /\ input' = <<args>>
          /\ fnCalls' = Append(fnCalls, Invocation(0, ForwardArgs(args), o))
          /\ owner' = Append(owner, 1)
          /\ settled' = Append(settled, Immediate(o))
          /\ frames' = <<frame>>
          /\ heap' = IF o.mode = "throw" THEN HeapAfter(o.v, heap) ELSE heap
    /\ op' = "tryPipePair"
    /\ UNCHANGED <<seen, returned, errs>>

\* The same pipeline invoked again, with other arguments, while its first invocation
\* is suspended at one of its steps.
TryPipeSecondCall ==
    /\ op = "tryPipePair"
    /\ Len(frames) = 1
    /\ frames[1].pc = "await"
    /\ \E args \in PairArgLists \ {input[1]}, o \in PairOutcomes :
          LET frame == tryPipeInvoke(o, Len(fnCalls) + 1, 0, heap) IN
          /\ input' = Append(input, args)
          /\ fnCalls' = Append(fnCalls, Invocation(0, ForwardArgs(args), o))
          /\ owner' = Append(owner, 2)
          /\ settled' = Append(settled, Immediate(o))
          /\ frames' = Append(frames, frame)
          /\ heap' = IF o.mode = "throw" THEN HeapAfter(o.v, heap) ELSE heap
    /\ UNCHANGED <<seen, op, nfns, returned, errs>>

-----------------------------------------------------------------------------
(* The inspection helpers: isTrySuccess, isTryError, isFailure
   (src/unnamed/part_002:36-62), isError, isErrorOrNoData, getFailureReason
   (src/src/try.ts:40-71) *)

True == Bool(TRUE)

False == Bool(FALSE)

\* What a helper call does: it returns v, or throws a TypeError.
Returns(v) == [threw |-> FALSE, v |-> v]

Throws == [threw |-> TRUE, v |-> Undefined]

\* !!value
Truthy(value) == value \notin {Null, Undefined, Num(0), Str(""), False}

\* Whether value may stand on the right of `in`: an object, not a primitive
\* (`key in 5` throws a TypeError).
IsObject(value) == value.kind \in {"object", "circular", "error"}

\* key in value, for an object
HasField(value, key) ==
    CASE value.kind = "object" ->
            \/ key = "success" /\ value.success # "absent"
            \/ key = "message" /\ value.message # "absent"
      [] value.kind = "error" -> key = "message"
      [] OTHER -> FALSE

\* value[key], for a value that is neither null nor undefined: a primitive or an
\* object without the field gives undefined.
Get(value, key) ==
    IF ~HasField(value, key) THEN Undefined
    ELSE IF value.kind = "error" THEN Str(value.s)
    ELSE IF key = "message" THEN Str(value.message)
    ELSE CASE value.success = "true" -> True
           [] value.success = "false" -> False
           [] OTHER -> Null

\* isTrySuccess: result[1] === null     (part_002:36-38)
isTrySuccess(result) == result[2] = Null

\* isTryError: result[0] === null       (part_002:40-42)
isTryError(result) == result[1] = Null

\* isError: result[1] !== null          (try.ts:40-42)
isError(result) == result[2] # Null

\* isFailure with `value === null` in place of `value == null`: an undefined payload
\* is not taken for a missing one.
isFailureStrictNull(result, statusKey) ==
    LET value == result[1]
        error == result[2]
        key == IF statusKey = Undefined THEN Str("success") ELSE statusKey
    IN  IF error # Null \/ value = Null THEN Returns(True)
        ELSE IF key = Null THEN Returns(False)
        ELSE IF ~IsObject(value) THEN Throws
        ELSE Returns(Bool(HasField(value, key.s) /\ Get(value, key.s) = False))

\* isFailure(result, statusKey = "success")   (part_002:52-62); an omitted
\* statusKey is undefined and takes the default.
isFailure(result, statusKey) ==
    LET value == result[1]
        error == result[2]
        key == IF statusKey = Undefined THEN Str("success") ELSE statusKey
    IN  IF error # Null \/ value \in {Null, Undefined} THEN Returns(True)
        ELSE IF key = Null THEN Returns(False)
        ELSE IF ~IsObject(value) THEN Throws
        ELSE Returns(Bool(HasField(value, key.s) /\ Get(value, key.s) = False))

\* getFailureReason(result)                   (try.ts:63-71)
getFailureReason(result) ==
    LET value == result[1]
        error == result[2]
    IN  IF Truthy(error) THEN Returns(Get(error, "message"))
        ELSE IF ~Truthy(value) THEN Returns(Str("No result"))
        ELSE IF ~IsObject(value) THEN Throws
        ELSE IF HasField(value, "success") /\ Get(value, "success") = False
             THEN Returns(IF Get(value, "message") \in {Null, Undefined}
                          THEN Str("Unsuccessful result")
                          ELSE Get(value, "message"))
        ELSE Returns(Undefined)

\* result[0]?.[statusKey]
StatusOf(result, statusKey) ==
    IF result[1] \in {Null, Undefined} THEN Undefined ELSE Get(result[1], statusKey.s)

\* isErrorOrNoData that takes only a status of false for a failed one.
isErrorOrNoDataFalseOnly(result, statusKey, h) ==
    IF isError(result) THEN Returns(result[2])
    ELSE IF result[1] = Null THEN Returns(Err(h, "No data"))
    ELSE IF Truthy(statusKey) /\ StatusOf(result, statusKey) = False
         THEN Returns(Err(h, "No data"))
    ELSE Returns(Undefined)

\* isErrorOrNoData(result, statusKey?) with the heap holding h Errors (try.ts:44-61)
isErrorOrNoData(result, statusKey, h) ==
    IF isError(result) THEN Returns(result[2])
    ELSE IF result[1] = Null THEN Returns(Err(h, "No data"))
    ELSE IF Truthy(statusKey)
         THEN IF StatusOf(result, statusKey) \in {False, Undefined, Null}
              THEN Returns(Err(h, "No data"))
              ELSE Returns(Undefined)
    ELSE Returns(Undefined)

\* The payloads of the tuples callers build by hand (try.test.ts:117-164): those
\* callables return, and records with and without a status and a message.
Payloads == Results \cup {True, Obj("true", "absent"), Obj("true", "m"),
                          Obj("false", "absent"), Obj("null", "absent")}

HandTuples == {<<v, Null>> : v \in Payloads} \cup {<<Null, e>> : e \in OldErrors}

\* The statusKey argument: omitted (undefined), null, or the name of a field.
StatusKeys == {Undefined, Null, Str("success"), Str("message"), Str("status"), Str("")}

\* Every helper applied to one tuple, isFailure and isErrorOrNoData with statusKey.
Inspection(result, statusKey, h) ==
    [tuple |-> result,
     statusKey |-> statusKey,
     isTrySuccess |-> isTrySuccess(result),
     isTryError |-> isTryError(result),
     isFailure |-> isFailure(result, statusKey),
     isFailureDefault |-> isFailure(result, Undefined),
     getFailureReason |-> getFailureReason(result),
     isErrorOrNoData |-> isErrorOrNoData(result, statusKey, h)]

\* The heap after isErrorOrNoData: one more Error when it made one.
HeapAfterInspection(result, statusKey, h) ==
    IF isErrorOrNoData(result, statusKey, h).v = Err(h, "No data") THEN h + 1 ELSE h

\* The caller builds a tuple by hand and asks the helpers about it.
InspectTuple ==
    /\ op = "idle"
    /\ \E result \in HandTuples, statusKey \in StatusKeys :
          /\ input' = result
          /\ seen' = <<Inspection(result, statusKey, heap)>>
          /\ heap' = HeapAfterInspection(result, statusKey, heap)
    /\ op' = "inspect"
    /\ UNCHANGED <<nfns, fnCalls, owner, settled, frames, returned, errs>>

\* The caller asks the helpers about the tuple tryCatch, a tryFn wrapper or
\* tryPromise gave it.
InspectReturned ==
    /\ op \in {"tryCatch", "tryFn", "tryPromise"}
    /\ returned.state \in {"returned", "resolved"}
    /\ seen = <<>>
    /\ \E statusKey \in StatusKeys :
          /\ seen' = <<Inspection(returned.tuples[1], statusKey, heap)>>
          /\ heap' = HeapAfterInspection(returned.tuples[1], statusKey, heap)
    /\ UNCHANGED <<op, input, nfns, fnCalls, owner, settled, frames, returned, errs>>

Next ==
    \/ EnsureErrorCall
    \/ EnsureErrorAgain
    \/ TryCatchCall
    \/ TryFnCall
    \/ TryPromiseCall
    \/ Settle
    \/ TryFnResume
    \/ TryMapCall
    \/ PromiseAllSettle
    \/ TryPipeCall
    \/ TryPipeNext
    \/ TryPipeReturn
    \/ TryPipeCatch
    \/ InspectTuple
    \/ InspectReturned

Spec == Init /\ [][Next]_vars

\* tryFn alone, with the scheduling the runtime guarantees: a continuation whose
\* awaited value is there is run (the microtask queue is drained), and a promise that
\* is going to settle does settle.
TryFnNext == TryFnCall \/ Settle \/ TryFnResume

TryFnFair == Init /\ [][TryFnNext]_vars /\ WF_vars(Settle) /\ WF_vars(TryFnResume)

\* Two overlapping invocations, with the same scheduling.
PairNext ==
    \/ TryFnPairCall
    \/ TryFnSecondCall
    \/ TryPipePairCall
    \/ TryPipeSecondCall
    \/ Settle
    \/ TryFnResume
    \/ TryPipeNext
    \/ TryPipeReturn
    \/ TryPipeCatch

PairFair ==
    /\ Init
    /\ [][PairNext]_vars
    /\ WF_vars(Settle)
    /\ WF_vars(TryFnResume)
    /\ WF_vars(TryPipeNext)
    /\ WF_vars(TryPipeReturn)
    /\ WF_vars(TryPipeCatch)

-----------------------------------------------------------------------------
(* Properties *)

Succeeded(o) == o.mode \in {"return", "resolve"}

Failed(o) == o.mode \in {"throw", "reject"}

\* e is ensureError(cause): the cause itself when it is an Error, otherwise an Error
\* made after the call began, with the message ensureError gives it.
IsEnsured(e, cause) ==
    /\ e = ensureError(cause, e.n)
    /\ ~InstanceOfError(cause) => e.n \in Cardinality(OldErrors)..(heap - 1)

\* t is the tuple the outcome o of the wrapped computation calls for.
TupleOf(t, o) ==
    /\ Len(t) = 2
    /\ Succeeded(o) => t = <<o.v, Null>>
    /\ Failed(o) => t[1] = Null /\ IsEnsured(t[2], o.v)
    /\ o.mode # "never"

\* The user call that decided the j-th tuple handed to the caller.
Decider(j) == IF op = "tryCatch" THEN 1 ELSE frames[j].call

HandedOver == returned.state \in {"returned", "resolved"}

\* C1 as stated: every tuple handed to the caller by tryCatch, a tryFn wrapper,
\* tryPromise, tryPipe or tryMap has exactly one of its two slots equal to null.
C1_ExactlyOneSlotNull ==
    HandedOver =>
        \A j \in 1..Len(returned.tuples) :
            (returned.tuples[j][1] = Null) # (returned.tuples[j][2] = Null)

\* C1 amended: the two slots are never both non-null, the error slot is null exactly
\* when the computation returned or resolved, and both slots are null exactly when
\* the computation returned or resolved to null.
C1_OneSlotNullUnlessNullResult ==
    HandedOver =>
        \A j \in 1..Len(returned.tuples) :
            LET t == returned.tuples[j]
                o == fnCalls[Decider(j)].outcome
            IN  /\ t[1] = Null \/ t[2] = Null
                /\ (t[2] = Null) <=> Succeeded(o)
                /\ (t[1] = Null /\ t[2] = Null) <=> (Succeeded(o) /\ o.v = Null)

C1_Witness ==
    /\ op = "tryMap"
    /\ returned.state = "resolved"
    /\ Len(returned.tuples) = 2
    /\ returned.tuples[1] = <<Null, Null>>
    /\ returned.tuples[2][2] # Null

\* C2: in a pipeline, once a step has thrown or rejected no step of a greater index
\* is invoked (the failing call stays the last one), and the pipeline's promise, once
\* settled, is resolved with [null, ensureError(cause of that step)]; after a
\* synchronous throw it is resolved at once.
C2_ShortCircuit ==
    op = "tryPipe" =>
        \A c \in 1..Len(fnCalls) :
            Failed(fnCalls[c].outcome) =>
                /\ c = Len(fnCalls)
                /\ \A d \in 1..Len(fnCalls) : fnCalls[d].fn <= fnCalls[c].fn
                /\ fnCalls[c].outcome.mode = "throw" => returned.state = "resolved"
                /\ returned.state # "pending" =>
                      /\ returned.state = "resolved"
                      /\ Len(returned.tuples) = 1
                      /\ returned.tuples[1][1] = Null
                      /\ IsEnsured(returned.tuples[1][2], fnCalls[c].outcome.v)

C2_Witness ==
    /\ op = "tryPipe"
    /\ nfns = 3
    /\ Len(fnCalls) = 2
    /\ fnCalls[2].outcome.mode = "reject"
    /\ returned.state = "resolved"

\* C3: the first step is called with the caller's argument list, every later step
\* with exactly the previous step's resolved output as its sole argument, in order;
\* and a pipeline none of whose steps failed, once settled, has run every step and is
\* resolved with [output of the last step, null].
C3_PipeSuccess ==
    op = "tryPipe" =>
        /\ Len(fnCalls) \in 1..nfns
        /\ fnCalls[1].args = input
        /\ \A c \in 1..Len(fnCalls) : fnCalls[c].fn = c - 1
        /\ \A c \in 2..Len(fnCalls) :
              /\ Succeeded(fnCalls[c - 1].outcome)
              /\ fnCalls[c].args = <<fnCalls[c - 1].outcome.v>>
        /\ (returned.state # "pending" /\ \A c \in 1..Len(fnCalls) : ~Failed(fnCalls[c].outcome)) =>
              /\ Len(fnCalls) = nfns
              /\ returned = [state |-> "resolved",
                             tuples |-> <<<<fnCalls[nfns].outcome.v, Null>>>>]

C3_Witness ==
    /\ op = "tryPipe"
    /\ nfns = 3
    /\ Len(fnCalls) = 3
    /\ Len(input) = 2
    /\ fnCalls[1].outcome.mode = "resolve"
    /\ fnCalls[3].outcome = Outcome("return", Str("11"))
    /\ returned.state = "resolved"

\* C4: fn is called once per input with (inputs[i], i); the promise of tryMap
\* settles only when every call has settled and every wrapper has returned, and
\* then it is resolved with as many tuples as inputs, the i-th being the outcome of
\* the i-th call, whatever the order the calls completed in.
C4_MapOrder ==
    op = "tryMap" =>
        /\ Len(fnCalls) = Len(input)
        /\ \A i \in 1..Len(input) : fnCalls[i].args = <<input[i], Num(i - 1)>>
        /\ returned.state # "pending" =>
              /\ returned.state = "resolved"
              /\ Len(returned.tuples) = Len(input)
              /\ \A i \in 1..Len(input) :
                    /\ settled[i]
                    /\ frames[i].pc = "done"
                    /\ TupleOf(returned.tuples[i], fnCalls[i].outcome)

\* The second item completed before the first (its Error was made first).
C4_Witness ==
    /\ op = "tryMap"
    /\ returned.state = "resolved"
    /\ Len(input) = 2
    /\ fnCalls[1].outcome = Outcome("reject", Str("too big"))
    /\ fnCalls[2].outcome = Outcome("reject", Circular)
    /\ returned.tuples[1][2].n > returned.tuples[2][2].n

\* C5: the promise of tryMap and the promises of its wrappers are never rejected;
\* the tuple of each item depends on that item's call alone: [null,
\* ensureError(cause)] when it failed, [result, null] when it did not, whatever the
\* other items did.
C5_MapIsolation ==
    op = "tryMap" =>
        /\ returned.state \in {"pending", "resolved"}
        /\ \A i \in 1..Len(frames) :
              /\ frames[i].state # "rejected"
              /\ frames[i].call = i
              /\ frames[i].state = "resolved" => TupleOf(frames[i].tuple, fnCalls[i].outcome)
              /\ (Failed(fnCalls[i].outcome) /\ settled[i] /\ frames[i].pc = "done") =>
                    frames[i].state = "resolved"

C5_Witness ==
    /\ op = "tryMap"
    /\ returned.state = "resolved"
    /\ Len(input) = 2
    /\ Failed(fnCalls[1].outcome)
    /\ returned.tuples[2] = <<Str("11"), Null>>

\* C6: a tryFn wrapper calls fn once, with exactly the arguments it was given; its
\* promise is never rejected, is resolved at once when fn throws, and once resolved
\* holds [v, null] for a result v and [null, ensureError(e)] for a cause e.
C6_WrapperTuple ==
    op = "tryFn" =>
        /\ Len(fnCalls) = 1
        /\ fnCalls[1].args = input
        /\ returned.state \in {"pending", "resolved"}
        /\ fnCalls[1].outcome.mode = "throw" => returned.state = "resolved"
        /\ frames[1].pc = "done" => returned.state = "resolved"
        /\ returned.state = "resolved" =>
              /\ Len(returned.tuples) = 1
              /\ settled[1]
              /\ TupleOf(returned.tuples[1], fnCalls[1].outcome)

C6_Witness ==
    /\ op = "tryFn"
    /\ Len(input) = 2
    /\ input[1] # input[2]
    /\ fnCalls[1].outcome = Outcome("reject", Obj("false", "m"))
    /\ returned.state = "resolved"

\* C7 as stated: the promise of a tryFn wrapper is eventually resolved, whatever
\* the wrapped callable does.
C7_AlwaysResolves == (op = "tryFn") ~> (returned.state = "resolved")

\* C7 amended: the promise of a tryFn wrapper is eventually resolved when the
\* wrapped callable returns a value, throws, or returns a promise that settles.
C7_ResolvesWhenSettles ==
    (op = "tryFn" /\ fnCalls[1].outcome.mode # "never") ~> (returned.state = "resolved")

C7_Witness ==
    /\ op = "tryFn"
    /\ fnCalls[1].outcome.mode = "reject"
    /\ returned.state = "resolved"

\* C8: tryCatch calls fn once, with no argument, and returns (never throws) [v, null]
\* when fn returned v, falsy or not, and [null, ensureError(e)] when fn threw e.
C8_TryCatchTuple ==
    op = "tryCatch" =>
        /\ Len(fnCalls) = 1
        /\ fnCalls[1].args = <<>>
        /\ returned.state = "returned"
        /\ Len(returned.tuples) = 1
        /\ TupleOf(returned.tuples[1], fnCalls[1].outcome)

C8_Witness ==
    /\ op = "tryCatch"
    /\ fnCalls[1].outcome = Outcome("return", Num(0))
    /\ returned.tuples = <<<<Num(0), Null>>>>

\* C9: the promise of tryPromise(p) is never rejected, stays pending while p is,
\* and is resolved with [v, null] when p resolved to v and with [null,
\* ensureError(e)] when p was rejected with e.
C9_TryPromiseTuple ==
    op = "tryPromise" =>
        /\ returned.state \in {"pending", "resolved"}
        /\ frames[1].pc = "done" => returned.state = "resolved"
        /\ returned.state = "resolved" =>
              /\ settled[1]
              /\ Len(returned.tuples) = 1
              /\ TupleOf(returned.tuples[1], fnCalls[1].outcome)

C9_Witness ==
    /\ op = "tryPromise"
    /\ fnCalls[1].outcome = Outcome("reject", Undefined)
    /\ returned.state = "resolved"
    /\ returned.tuples[1][2].s = ""

\* C10: ensureError returns an Error it is given as the same object, and applied
\* to its own result returns that result: the same object, the same message.
C10_EnsureErrorIdempotent ==
    op = "ensureError" =>
        /\ InstanceOfError(errs[1])
        /\ InstanceOfError(input[1]) => errs[1] = input[1]
        /\ Len(errs) = 2 => errs[2] = errs[1]

C10_Witness ==
    /\ op = "ensureError"
    /\ ~InstanceOfError(input[1])
    /\ Len(errs) = 2
    /\ errs[2].n = errs[1].n


\* String(JSON.stringify(value)): the serialization as text ("undefined" where
\* JSON.stringify gives undefined).
SerializedText(value) ==
    IF JSONStringify(value).defined THEN JSONStringify(value).text ELSE "undefined"

\* C11 as stated: ensureError returns an Error for every input, and for an input
\* that is no Error its message is the input itself when it is a string, "Unknown
\* error" when serialization throws, and the JSON serialization as text otherwise.
C11_MessageIsSerialization ==
    op = "ensureError" =>
        /\ InstanceOfError(errs[1])
        /\ ~InstanceOfError(input[1]) =>
              errs[1].s = IF input[1].kind = "string" THEN input[1].s
                          ELSE IF JSONStringify(input[1]).threw THEN "Unknown error"
                          ELSE SerializedText(input[1])


\* The tuple the helpers were asked about, and what each said.
Inspected == seen # <<>>

\* A new Error("No data"), made by the inspection.
IsNoDataError(r) ==
    /\ ~r.threw
    /\ r.v = Err(heap - 1, "No data")
    /\ heap - 1 >= Cardinality(OldErrors)

\* C12 as stated: getFailureReason returns the error's message when the error slot
\* holds an error; otherwise "No result" exactly when the value slot is absent (not
\* for 0, "" or false); otherwise, for a payload with success === false, the
\* payload's message, or "Unsuccessful result" when it has none.
C12_ReasonPriority ==
    Inspected =>
        LET t == seen[1].tuple
            r == seen[1].getFailureReason
        IN  /\ t[2] # Null => r = Returns(Str(t[2].s))
            /\ t[2] = Null =>
                  /\ (r = Returns(Str("No result"))) <=> (t[1] \in {Null, Undefined})
                  /\ (t[1].kind = "object" /\ t[1].success = "false") =>
                        r = Returns(IF t[1].message = "absent" THEN Str("Unsuccessful result")
                                    ELSE Str(t[1].message))

\* C13 as stated: on a success tuple whose payload is a number, a string or a
\* boolean none of isFailure, getFailureReason and isErrorOrNoData throws.
C13_HelpersNeverThrow ==
    (Inspected /\ seen[1].tuple[2] = Null
               /\ seen[1].tuple[1].kind \in {"number", "string", "boolean"}) =>
        /\ ~seen[1].isFailure.threw
        /\ ~seen[1].isFailureDefault.threw
        /\ ~seen[1].getFailureReason.threw
        /\ ~seen[1].isErrorOrNoData.threw

\* C14 as stated: isFailure returns true exactly when the error slot is non-null,
\* or the value is null or undefined, or statusKey (by default "success") is not
\* null and the record payload has a field of that name whose value is false.
C14_IsFailureExactly ==
    Inspected =>
        LET t == seen[1].tuple
            key == IF seen[1].statusKey = Undefined THEN Str("success") ELSE seen[1].statusKey
        IN  seen[1].isFailure =
                Returns(Bool(\/ t[2] # Null
                             \/ t[1] \in {Null, Undefined}
                             \/ /\ key # Null
                                /\ t[1].kind = "object"
                                /\ key.s = "success"
                                /\ t[1].success = "false"))

\* C15 as stated: isErrorOrNoData returns the tuple's own error when there is one,
\* a new Error when the data is null or when a statusKey is given and the payload's
\* status field is false, and undefined in every other case (a payload without the
\* status field among them).
C15_ErrorOnlyOnFalseStatus ==
    Inspected =>
        LET t == seen[1].tuple
            r == seen[1].isErrorOrNoData
            given == Truthy(seen[1].statusKey)
        IN  IF t[2] # Null THEN r = Returns(t[2])
            ELSE IF t[1] = Null THEN IsNoDataError(r)
            ELSE IF given /\ StatusOf(t, seen[1].statusKey) = False THEN IsNoDataError(r)
            ELSE r = Returns(Undefined)

\* C15 amended: isErrorOrNoData returns the tuple's own error when there is one, a
\* new Error when the data is null or when a statusKey is given and the payload's
\* status field is false, null or undefined (a payload without the status field
\* among them), and undefined in every other case.
C15_ErrorUnlessStatusPresent ==
    Inspected =>
        LET t == seen[1].tuple
            r == seen[1].isErrorOrNoData
            given == Truthy(seen[1].statusKey)
            status == IF t[1].kind = "object" /\ seen[1].statusKey.s = "success"
                      THEN t[1].success
                      ELSE IF t[1].kind = "object" /\ seen[1].statusKey.s = "message"
                           THEN IF t[1].message = "absent" THEN "absent" ELSE "text"
                           ELSE "absent"
        IN  IF t[2] # Null THEN r = Returns(t[2])
            ELSE IF t[1] = Null THEN IsNoDataError(r)
            ELSE IF given /\ status \in {"false", "null", "absent"} THEN IsNoDataError(r)
            ELSE r = Returns(Undefined)

C15_Witness ==
    /\ Inspected
    /\ seen[1].tuple = <<Obj("absent", "absent"), Null>>
    /\ seen[1].statusKey = Str("success")
    /\ seen[1].isErrorOrNoData.v.s = "No data"

\* C16 as stated: of a tuple returned by tryCatch, a tryFn wrapper or tryPromise,
\* isTrySuccess is true exactly when the error slot is null, isTryError exactly when
\* it holds an error, and so exactly one of the two is true.
C16_SuccessXorError ==
    (Inspected /\ op \in {"tryCatch", "tryFn", "tryPromise"}) =>
        /\ seen[1].isTrySuccess <=> (seen[1].tuple[2] = Null)
        /\ seen[1].isTryError <=> InstanceOfError(seen[1].tuple[2])
        /\ seen[1].isTrySuccess # seen[1].isTryError


\* C19: for every tuple whose payload is absent or record-shaped, isFailure with the
\* default status key returns true if and only if getFailureReason returns a reason
\* string rather than undefined, and neither throws.
C19_FailureIffReason ==
    (Inspected /\ seen[1].tuple[1].kind \in {"null", "undefined", "object"}) =>
        /\ ~seen[1].isFailureDefault.threw
        /\ ~seen[1].getFailureReason.threw
        /\ seen[1].isFailureDefault.v \in {True, False}
        /\ seen[1].getFailureReason.v.kind \in {"string", "undefined"}
        /\ (seen[1].isFailureDefault.v = True) <=> (seen[1].getFailureReason.v.kind = "string")

C19_Witness ==
    /\ Inspected
    /\ seen[1].tuple = <<Obj("false", "absent"), Null>>
    /\ seen[1].isFailureDefault = Returns(True)
    /\ seen[1].getFailureReason = Returns(Str("Unsuccessful result"))


\* C17: a pipeline invokes its steps strictly in order, each at most once: a step is
\* invoked only as the one after the last invoked, when every step invoked before has
\* settled successfully, so that no two steps of the invocation are in flight at the
\* same time.
C17_StepsInOrder ==
    [][(op' = "tryPipe" /\ Len(fnCalls') # Len(fnCalls)) =>
          /\ fnCalls' = Append(fnCalls, fnCalls'[Len(fnCalls')])
          /\ fnCalls'[Len(fnCalls')].fn = Len(fnCalls)
          /\ Len(fnCalls') <= nfns'
          /\ \A c \in 1..Len(fnCalls) :
                /\ fnCalls[c].fn = c - 1
                /\ settled[c]
                /\ Succeeded(fnCalls[c].outcome)
          /\ Cardinality({c \in 1..Len(fnCalls') : ~settled'[c]}) <= 1]_vars

C17_Witness ==
    /\ op = "tryPipe"
    /\ nfns = 3
    /\ Len(fnCalls) = 3
    /\ fnCalls[1].outcome.mode = "resolve"
    /\ fnCalls[2].outcome.mode = "resolve"
    /\ fnCalls[3].outcome.mode = "resolve"
    /\ settled[2]
    /\ ~settled[3]


\* The user calls activation f made itself, in the order it made them.
OwnCalls(f) == SelectSeq([c \in 1..Len(owner) |-> c], LAMBDA c : owner[c] = f)

Paired == op \in {"tryFnPair", "tryPipePair"}

\* Each of the overlapping invocations is as it would be alone: its callable or first
\* step got its own arguments, each later step its own previous step's output, and its
\* promise, once settled, is resolved with the tuple its own last call calls for.
RunsAlone ==
    Paired =>
        \A f \in 1..Len(frames) :
            LET calls == OwnCalls(f)
                last == fnCalls[calls[Len(calls)]]
            IN  /\ Len(calls) >= 1
                /\ fnCalls[calls[1]].args = input[f]
                /\ op = "tryFnPair" => Len(calls) = 1
                /\ op = "tryPipePair" => Len(calls) <= nfns
                /\ \A j \in 1..Len(calls) : fnCalls[calls[j]].fn = j - 1
                /\ \A j \in 2..Len(calls) :
                      /\ Succeeded(fnCalls[calls[j - 1]].outcome)
                      /\ settled[calls[j - 1]]
                      /\ fnCalls[calls[j]].args = <<fnCalls[calls[j - 1]].outcome.v>>
                /\ frames[f].call = calls[Len(calls)]
                /\ frames[f].state \in {"pending", "resolved"}
                /\ frames[f].state = "resolved" =>
                      /\ TupleOf(frames[f].tuple, last.outcome)
                      /\ (op = "tryPipePair" /\ Succeeded(last.outcome)) => Len(calls) = nfns

\* Both invocations are under way and invocation f has resolved to a failure tuple.
HasFailed(f) ==
    IF Paired /\ Len(frames) = 2
    THEN frames[f].state = "resolved" /\ frames[f].tuple[2] # Null
    ELSE FALSE

HasResolved(f) == IF f \in 1..Len(frames) THEN frames[f].state = "resolved" ELSE FALSE

\* C18: two overlapping invocations of one composed pipeline, or of one tryFn wrapper,
\* with different arguments do not interfere: under every interleaving each resolves
\* to the tuple it would produce alone, and once one has failed the other still goes
\* on to resolve.
C18_NoInterference ==
    /\ []RunsAlone
    /\ \A f \in 1..2 : HasFailed(f) ~> HasResolved(3 - f)

C18_Witness ==
    /\ op = "tryPipePair"
    /\ nfns = 2
    /\ owner = <<1, 2, 2, 1>>
    /\ input[1] # input[2]
    /\ frames[1].state = "resolved"
    /\ frames[1].tuple[2] # Null
    /\ frames[2].state = "resolved"
    /\ frames[2].tuple = <<Str("11"), Null>>

====
